---- MODULE Spec2Model ----
(***************************************************************************)
(* central_lock.py: a lock kept in a redis key.                            *)
(*                                                                         *)
(*   central_lock(redis_client, key, timeout=None, retry_cnt=3)            *)
(*   central_lock_block(redis_client, key, timeout=None, retry_cnt=3,      *)
(*                      interval=1)                                        *)
(*                                                                         *)
(* Both are generator functions wrapped by contextlib.contextmanager.      *)
(* Callers are processes that share one redis key.  Every redis call       *)
(* (setnx, expire, delete) is one atomic step; the statements that follow  *)
(* a redis call up to the next redis call, yield or sleep are local to the *)
(* caller and belong to the same step.  pc[p] is the source line at which  *)
(* caller p stands: the redis call it is about to make, or the yield at    *)
(* which its generator is suspended while the with-body runs.              *)
(***************************************************************************)
EXTENDS Integers, Naturals, Sequences, FiniteSets, TLC

\* ------------------------------------------------------------------ bounds
NumProcs == 2
MaxRetry == 2

Procs == 1..NumProcs

\* timeout=None and timeout=0 are both falsy at `if timeout:`; 5 is a lease
NoLease == 0
Timeouts == {NoLease, 5}
Retries == 0..MaxRetry
Kinds == {"central_lock", "central_lock_block"}

\* retry_cnt=3 is the default of both functions (lines 45, 69)
DefaultRetry == 3

\* the arguments <<function, timeout, retry_cnt>> of one caller.  retry_cnt is
\* read only under `if timeout:`, so a caller without a lease passes the default.
Args ==
    {<<k, NoLease, DefaultRetry>> : k \in Kinds}
    \cup {a \in Kinds \X Timeouts \X Retries : a[2] # NoLease}

\* Callers differ only in their arguments, so every assignment of arguments to
\* callers is a renaming of one in which the arguments are in this order.
Rank(a) == (IF a[1] = "central_lock" THEN 0 ELSE 100) + 10 * a[2] + a[3]
Callers == {a \in [Procs -> Args] : \A p, q \in Procs : p < q => Rank(a[p]) <= Rank(a[q])}

VARIABLES
    \* ---- the redis server
    db,         \* value stored at key: 0 = key absent, 1 = the marker setnx wrote
    ttl,        \* time-to-live armed on key: 0 = none
    faulty,     \* TRUE while the server may answer an expire with False
    \* ---- the callers' arguments, fixed per caller
    kind,       \* which function caller p uses
    timeout,    \* timeout argument
    retry0,     \* retry_cnt argument as passed
    \* ---- the generator's frame
    pc,         \* position, see above
    retry_cnt,  \* local retry_cnt
    get_lock,   \* local get_lock
    \* ---- what the with-statement saw
    yields,     \* values the generator yielded in this use, in order
    err,        \* what the with-statement raised to the caller
    \* ---- history of the current call
    claimer,    \* caller whose setnx wrote the marker now at key, 0 = nobody
    setnxRes,   \* result of this call's latest setnx: "none", "won", "lost"
    armed,      \* an expire of this call returned True
    setnxCalls, expireCalls, deleteCalls,  \* redis calls issued by this central_lock call
    relDeletes  \* deletes issued by this call after its first yield

store == <<db, ttl, faulty, claimer>>
args == <<kind, timeout, retry0>>
frame == <<pc, retry_cnt, get_lock>>
seen == <<yields, err>>
hist == <<setnxRes, armed, setnxCalls, expireCalls, deleteCalls, relDeletes>>
vars == <<db, ttl, faulty, claimer, kind, timeout, retry0, pc, retry_cnt, get_lock,
          yields, err, setnxRes, armed, setnxCalls, expireCalls, deleteCalls, relDeletes>>

\* ------------------------------------------------------------ redis server
\* a SET in place of SETNX: the key is written whether it exists or not
setnx_overwrites(d) == TRUE

\* SETNX: sets key only if it does not exist; answers whether it did
setnx(d) == d = 0

\* EXPIRE: arms the ttl of an existing key; answers whether it did.
\* `rejected` is the server refusing the request (only while faulty).
expire(d, rejected) == d = 1 /\ ~rejected

Rejections == IF faulty THEN BOOLEAN ELSE {FALSE}

\* DEL: removes key and its ttl
delete ==
    /\ db' = 0
    /\ ttl' = 0
    /\ claimer' = 0

\* the ttl of key runs out: redis removes it
LeaseExpire ==
    /\ db = 1
    /\ ttl # 0
    /\ delete
    /\ UNCHANGED <<faulty, args, frame, seen, hist>>

\* the server stops rejecting expire requests
Heal ==
    /\ faulty
    /\ faulty' = FALSE
    /\ UNCHANGED <<db, ttl, claimer, args, frame, seen, hist>>

\* ------------------------------------------------- decisions of the code
\* `while retry_cnt:` (lines 50, 75)
LoopContinues(rc) == rc # 0

\* the decrement forgotten
Decrement_forgotten(rc) == rc

\* `retry_cnt -= 1` (lines 53, 78)
Decrement(rc) == rc - 1

\* the test off by one: the last permitted attempt counts as exhaustion
Exhausted_offbyone(rc) == rc <= 1

\* `if retry_cnt == 0:` (lines 55, 80)
Exhausted(rc) == rc = 0

\* the timeout argument ignored
LeaseRequested_ignored(t) == FALSE

\* `if timeout:` (lines 49, 74)
LeaseRequested(t) == t # NoLease

\* the finally blocks never deleting
ReleaseOnExit_never(g) == FALSE

\* the finally blocks deleting whether or not the lock is held
ReleaseOnExit_always(g) == TRUE

\* `if get_lock:` in the finally blocks (lines 64, 91)
ReleaseOnExit(g) == g

\* where control goes once the arming loop is left with retry_cnt = rc:
\* the cleanup delete, or the yield of True
AfterLoop(rc, cleanup, yieldTrue) == IF Exhausted(rc) THEN cleanup ELSE yieldTrue

\* where control goes after a successful setnx
AfterClaim(t, rc, arm, cleanup, yieldTrue) ==
    IF LeaseRequested(t)
    THEN IF LoopContinues(rc) THEN arm ELSE AfterLoop(rc, cleanup, yieldTrue)
    ELSE yieldTrue

\* where control goes after an expire answered `ok`, retry_cnt being rc before
AfterExpire(ok, rc, arm, cleanup, yieldTrue) ==
    IF ok
    THEN AfterLoop(rc, cleanup, yieldTrue)
    ELSE IF LoopContinues(Decrement(rc)) THEN arm
         ELSE AfterLoop(Decrement(rc), cleanup, yieldTrue)

Inc(f, p) == [f EXCEPT ![p] = @ + 1]

\* ------------------------------------------------------------ central_lock
\* the with-statement is entered: the generator starts (line 46)
central_lock_enter(p) ==
    /\ pc[p] = "idle"
    /\ kind[p] = "central_lock"
    /\ pc' = [pc EXCEPT ![p] = "l48"]
    /\ get_lock' = [get_lock EXCEPT ![p] = FALSE]
    /\ retry_cnt' = [retry_cnt EXCEPT ![p] = retry0[p]]
    /\ UNCHANGED <<store, args, seen, hist>>

\* line 48, and lines 49-50, 55, 58-59 or 60-61 after it
central_lock_setnx(p) ==
    /\ pc[p] = "l48"
    /\ setnxCalls' = Inc(setnxCalls, p)
    /\ IF setnx(db)
       THEN LET next == AfterClaim(timeout[p], retry_cnt[p], "l51", "l56", "l59") IN
            /\ db' = 1
            /\ ttl' = 0
            /\ claimer' = p
            /\ setnxRes' = [setnxRes EXCEPT ![p] = "won"]
            /\ pc' = [pc EXCEPT ![p] = next]
            /\ get_lock' = [get_lock EXCEPT ![p] = (next = "l59")]
            /\ yields' = [yields EXCEPT ![p] = IF next = "l59" THEN <<TRUE>> ELSE @]
       ELSE /\ setnxRes' = [setnxRes EXCEPT ![p] = "lost"]
            /\ pc' = [pc EXCEPT ![p] = "l61"]
            /\ yields' = [yields EXCEPT ![p] = <<FALSE>>]
            /\ UNCHANGED <<db, ttl, claimer, get_lock>>
    /\ UNCHANGED <<faulty, args, retry_cnt, err, armed, expireCalls, deleteCalls, relDeletes>>

\* line 51, and lines 52-53, 50, 55, 58-59 after it
central_lock_expire(p) ==
    /\ pc[p] = "l51"
    /\ \E rejected \in Rejections :
        LET ok == expire(db, rejected)
            next == AfterExpire(ok, retry_cnt[p], "l51", "l56", "l59") IN
        /\ ttl' = IF ok THEN timeout[p] ELSE ttl
        /\ armed' = [armed EXCEPT ![p] = @ \/ ok]
        /\ retry_cnt' = [retry_cnt EXCEPT ![p] = IF ok THEN @ ELSE Decrement(@)]
        /\ pc' = [pc EXCEPT ![p] = next]
        /\ get_lock' = [get_lock EXCEPT ![p] = (next = "l59")]
        /\ yields' = [yields EXCEPT ![p] = IF next = "l59" THEN <<TRUE>> ELSE @]
    /\ expireCalls' = Inc(expireCalls, p)
    /\ UNCHANGED <<db, faulty, claimer, args, err, setnxRes, setnxCalls, deleteCalls, relDeletes>>

\* False yielded with the claim left in place
central_lock_cleanup_orphans(p) ==
    /\ pc[p] = "l56"
    /\ pc' = [pc EXCEPT ![p] = "l57"]
    /\ yields' = [yields EXCEPT ![p] = <<FALSE>>]
    /\ UNCHANGED <<store, args, retry_cnt, get_lock, err, hist>>

\* lines 56-57: the claim is given up and False is yielded
central_lock_cleanup(p) ==
    /\ pc[p] = "l56"
    /\ delete
    /\ deleteCalls' = Inc(deleteCalls, p)
    /\ pc' = [pc EXCEPT ![p] = "l57"]
    /\ yields' = [yields EXCEPT ![p] = <<FALSE>>]
    /\ UNCHANGED <<faulty, args, retry_cnt, get_lock, err, setnxRes, armed,
                   setnxCalls, expireCalls, relDeletes>>

\* lines 63-65, run with get_lock = g
central_lock_finally(p, g) ==
    IF ReleaseOnExit(g)
    THEN /\ delete
         /\ deleteCalls' = Inc(deleteCalls, p)
         /\ relDeletes' = Inc(relDeletes, p)
    ELSE UNCHANGED <<db, ttl, claimer, deleteCalls, relDeletes>>

\* a try without finally: an error of the with-body skips the release
central_lock_raise_skips_release(p) ==
    /\ pc[p] \in {"l57", "l59", "l61"}
    /\ err' = [err EXCEPT ![p] = "body"]
    /\ pc' = [pc EXCEPT ![p] = "done"]
    /\ UNCHANGED <<store, args, retry_cnt, get_lock, yields, hist>>

\* the with-body raises: contextmanager throws the error into the generator at
\* its yield (line 57, 59 or 61), the finally block runs, the error goes on
central_lock_raise(p) ==
    /\ pc[p] \in {"l57", "l59", "l61"}
    /\ central_lock_finally(p, get_lock[p])
    /\ err' = [err EXCEPT ![p] = "body"]
    /\ pc' = [pc EXCEPT ![p] = "done"]
    /\ UNCHANGED <<faulty, args, retry_cnt, get_lock, yields, setnxRes, armed,
                   setnxCalls, expireCalls>>

\* the with-body completes: contextmanager resumes the generator.
\* From line 59 or 61 the generator runs to its end through the finally block.
\* From line 57 it goes on to lines 58-59: get_lock = True and a second yield,
\* which contextmanager answers with RuntimeError("generator didn't stop"),
\* leaving the generator suspended at line 59.
central_lock_exit(p) ==
    /\ pc[p] \in {"l57", "l59", "l61"}
    /\ IF pc[p] = "l57"
       THEN /\ get_lock' = [get_lock EXCEPT ![p] = TRUE]
            /\ yields' = [yields EXCEPT ![p] = Append(@, TRUE)]
            /\ err' = [err EXCEPT ![p] = "RuntimeError"]
            /\ pc' = [pc EXCEPT ![p] = "l59x"]
            /\ UNCHANGED <<db, ttl, claimer, deleteCalls, relDeletes>>
       ELSE /\ central_lock_finally(p, get_lock[p])
            /\ pc' = [pc EXCEPT ![p] = "done"]
            /\ UNCHANGED <<get_lock, yields, err>>
    /\ UNCHANGED <<faulty, args, retry_cnt, setnxRes, armed, setnxCalls, expireCalls>>

\* the generator left suspended at line 59 is closed (by contextmanager itself
\* or when it is collected): GeneratorExit is raised at line 59 and the
\* finally block runs.  When this happens is not fixed; the caller is kept
\* from entering again until it has.
central_lock_close(p) ==
    /\ pc[p] = "l59x"
    /\ central_lock_finally(p, get_lock[p])
    /\ pc' = [pc EXCEPT ![p] = "done"]
    /\ UNCHANGED <<faulty, args, retry_cnt, get_lock, seen, setnxRes, armed,
                   setnxCalls, expireCalls>>

\* ------------------------------------------------------ central_lock_block
\* the with-statement is entered: the generator starts (line 70)
central_lock_block_enter(p) ==
    /\ pc[p] = "idle"
    /\ kind[p] = "central_lock_block"
    /\ pc' = [pc EXCEPT ![p] = "l73"]
    /\ get_lock' = [get_lock EXCEPT ![p] = FALSE]
    /\ retry_cnt' = [retry_cnt EXCEPT ![p] = retry0[p]]
    /\ UNCHANGED <<store, args, seen, hist>>

\* contention answered as central_lock answers it: False is yielded at once
central_lock_block_setnx_gives_up(p) ==
    /\ pc[p] = "l73"
    /\ IF setnx(db)
       THEN LET next == AfterClaim(timeout[p], retry_cnt[p], "l76", "l81", "l84") IN
            /\ db' = 1
            /\ ttl' = 0
            /\ claimer' = p
            /\ setnxRes' = [setnxRes EXCEPT ![p] = "won"]
            /\ pc' = [pc EXCEPT ![p] = next]
            /\ get_lock' = [get_lock EXCEPT ![p] = (next = "l84")]
            /\ yields' = [yields EXCEPT ![p] = IF next = "l84" THEN <<TRUE>> ELSE @]
       ELSE /\ setnxRes' = [setnxRes EXCEPT ![p] = "lost"]
            /\ pc' = [pc EXCEPT ![p] = "l84"]
            /\ yields' = [yields EXCEPT ![p] = <<FALSE>>]
            /\ UNCHANGED <<db, ttl, claimer, get_lock>>
    /\ UNCHANGED <<faulty, args, retry_cnt, err, armed, setnxCalls, expireCalls,
                   deleteCalls, relDeletes>>

\* line 73, and lines 74-75, 80, 83-84 or 86-87 after it
central_lock_block_setnx(p) ==
    /\ pc[p] = "l73"
    /\ IF setnx(db)
       THEN LET next == AfterClaim(timeout[p], retry_cnt[p], "l76", "l81", "l84") IN
            /\ db' = 1
            /\ ttl' = 0
            /\ claimer' = p
            /\ setnxRes' = [setnxRes EXCEPT ![p] = "won"]
            /\ pc' = [pc EXCEPT ![p] = next]
            /\ get_lock' = [get_lock EXCEPT ![p] = (next = "l84")]
            /\ yields' = [yields EXCEPT ![p] = IF next = "l84" THEN <<TRUE>> ELSE @]
       ELSE /\ setnxRes' = [setnxRes EXCEPT ![p] = "lost"]
            /\ pc' = [pc EXCEPT ![p] = "l87"]
            /\ UNCHANGED <<db, ttl, claimer, get_lock, yields>>
    /\ UNCHANGED <<faulty, args, retry_cnt, err, armed, setnxCalls, expireCalls,
                   deleteCalls, relDeletes>>

\* lines 87-88: time.sleep(interval) returns, back to line 73
central_lock_block_sleep(p) ==
    /\ pc[p] = "l87"
    /\ pc' = [pc EXCEPT ![p] = "l73"]
    /\ UNCHANGED <<store, args, retry_cnt, get_lock, seen, hist>>

\* line 76, and lines 77-78, 75, 80, 83-84 after it
central_lock_block_expire(p) ==
    /\ pc[p] = "l76"
    /\ \E rejected \in Rejections :
        LET ok == expire(db, rejected)
            next == AfterExpire(ok, retry_cnt[p], "l76", "l81", "l84") IN
        /\ ttl' = IF ok THEN timeout[p] ELSE ttl
        /\ armed' = [armed EXCEPT ![p] = @ \/ ok]
        /\ retry_cnt' = [retry_cnt EXCEPT ![p] = IF ok THEN @ ELSE Decrement(@)]
        /\ pc' = [pc EXCEPT ![p] = next]
        /\ get_lock' = [get_lock EXCEPT ![p] = (next = "l84")]
        /\ yields' = [yields EXCEPT ![p] = IF next = "l84" THEN <<TRUE>> ELSE @]
    /\ UNCHANGED <<db, faulty, claimer, args, err, setnxRes, setnxCalls, expireCalls,
                   deleteCalls, relDeletes>>

\* the cleanup falling through to the yield of True, as central_lock's does
central_lock_block_cleanup_falls_through(p) ==
    /\ pc[p] = "l81"
    /\ delete
    /\ pc' = [pc EXCEPT ![p] = "l84"]
    /\ get_lock' = [get_lock EXCEPT ![p] = TRUE]
    /\ yields' = [yields EXCEPT ![p] = <<TRUE>>]
    /\ UNCHANGED <<faulty, args, retry_cnt, err, hist>>

\* lines 81-82: the claim is given up, back to line 73 without sleeping
central_lock_block_cleanup(p) ==
    /\ pc[p] = "l81"
    /\ delete
    /\ pc' = [pc EXCEPT ![p] = "l73"]
    /\ UNCHANGED <<faulty, args, retry_cnt, get_lock, seen, hist>>

\* a release that checks whose claim is at key before deleting it
central_lock_block_finally_checks_owner(p, g) ==
    IF g /\ claimer = p
    THEN /\ delete
         /\ relDeletes' = Inc(relDeletes, p)
    ELSE UNCHANGED <<db, ttl, claimer, relDeletes>>

\* lines 90-92, run with get_lock = g
central_lock_block_finally(p, g) ==
    IF ReleaseOnExit(g)
    THEN /\ delete
         /\ relDeletes' = Inc(relDeletes, p)
    ELSE UNCHANGED <<db, ttl, claimer, relDeletes>>

\* the with-body raises: the error is thrown in at line 84
central_lock_block_raise(p) ==
    /\ pc[p] = "l84"
    /\ central_lock_block_finally(p, get_lock[p])
    /\ err' = [err EXCEPT ![p] = "body"]
    /\ pc' = [pc EXCEPT ![p] = "done"]
    /\ UNCHANGED <<faulty, args, retry_cnt, get_lock, yields, setnxRes, armed,
                   setnxCalls, expireCalls, deleteCalls>>

\* the with-body completes: line 85 breaks out of the loop
central_lock_block_exit(p) ==
    /\ pc[p] = "l84"
    /\ central_lock_block_finally(p, get_lock[p])
    /\ pc' = [pc EXCEPT ![p] = "done"]
    /\ UNCHANGED <<faulty, args, retry_cnt, get_lock, seen, setnxRes, armed,
                   setnxCalls, expireCalls, deleteCalls>>

\* ----------------------------------------------------------------- callers
\* the with-statement is over; the caller may enter another one
Return(p) ==
    /\ pc[p] = "done"
    /\ pc' = [pc EXCEPT ![p] = "idle"]
    /\ retry_cnt' = [retry_cnt EXCEPT ![p] = retry0[p]]
    /\ get_lock' = [get_lock EXCEPT ![p] = FALSE]
    /\ yields' = [yields EXCEPT ![p] = <<>>]
    /\ err' = [err EXCEPT ![p] = "none"]
    /\ setnxRes' = [setnxRes EXCEPT ![p] = "none"]
    /\ armed' = [armed EXCEPT ![p] = FALSE]
    /\ setnxCalls' = [setnxCalls EXCEPT ![p] = 0]
    /\ expireCalls' = [expireCalls EXCEPT ![p] = 0]
    /\ deleteCalls' = [deleteCalls EXCEPT ![p] = 0]
    /\ relDeletes' = [relDeletes EXCEPT ![p] = 0]
    /\ UNCHANGED <<store, args>>

Init ==
    /\ db = 0
    /\ ttl = 0
    /\ faulty = TRUE
    /\ claimer = 0
    /\ \E a \in Callers :
        /\ kind = [p \in Procs |-> a[p][1]]
        /\ timeout = [p \in Procs |-> a[p][2]]
        /\ retry0 = [p \in Procs |-> a[p][3]]
    /\ pc = [p \in Procs |-> "idle"]
    /\ retry_cnt = retry0
    /\ get_lock = [p \in Procs |-> FALSE]
    /\ yields = [p \in Procs |-> <<>>]
    /\ err = [p \in Procs |-> "none"]
    /\ setnxRes = [p \in Procs |-> "none"]
    /\ armed = [p \in Procs |-> FALSE]
    /\ setnxCalls = [p \in Procs |-> 0]
    /\ expireCalls = [p \in Procs |-> 0]
    /\ deleteCalls = [p \in Procs |-> 0]
    /\ relDeletes = [p \in Procs |-> 0]

\* a step of the library inside caller p's call, or the end of p's with-body
Step(p) ==
    \/ central_lock_setnx(p)
    \/ central_lock_expire(p)
    \/ central_lock_cleanup(p)
    \/ central_lock_raise(p)
    \/ central_lock_exit(p)
    \/ central_lock_close(p)
    \/ central_lock_block_setnx(p)
    \/ central_lock_block_sleep(p)
    \/ central_lock_block_expire(p)
    \/ central_lock_block_cleanup(p)
    \/ central_lock_block_raise(p)
    \/ central_lock_block_exit(p)

Next ==
    \/ \E p \in Procs : central_lock_enter(p)
    \/ \E p \in Procs : central_lock_block_enter(p)
    \/ \E p \in Procs : Step(p)
    \/ \E p \in Procs : Return(p)
    \/ LeaseExpire
    \/ Heal

Spec == Init /\ [][Next]_vars

\* A ttl is on the key only while the caller that armed it is inside its
\* scope: that caller yields in the step that arms it and deletes the key,
\* ttl included, when its scope ends.
LeaseHasHolder == ttl # 0 => \E p \in Procs : pc[p] \in {"l59", "l84"} /\ armed[p]

\* The behaviours in which no lease runs out while its holder is in scope
\* (timeouts chosen longer than the with-bodies take): by LeaseHasHolder
\* these are the behaviours without LeaseExpire.
NextNoLapse ==
    \/ \E p \in Procs : central_lock_enter(p)
    \/ \E p \in Procs : central_lock_block_enter(p)
    \/ \E p \in Procs : Step(p)
    \/ \E p \in Procs : Return(p)
    \/ Heal

NoLapseSpec == Init /\ [][NextNoLapse]_vars

\* A call that has been entered keeps running and a with-body ends; whether a
\* caller enters again, and what the server does, is left open.
FairSpec == Spec /\ \A p \in Procs : WF_vars(Step(p))

\* ================================================================ properties
IsLock(p) == kind[p] = "central_lock"
IsBlock(p) == kind[p] = "central_lock_block"
Leased(p) == timeout[p] # NoLease

\* the with-body of p is running
InBody(p) == pc[p] \in {"l57", "l59", "l61", "l84"}
\* ... and was handed True
InTrueScope(p) == pc[p] \in {"l59", "l84"}
\* p's call is over
Over(p) == pc[p] = "done"
\* the first value p's with-statement received
Got(p, v) == yields[p] # <<>> /\ yields[p][1] = v
\* caller p is the one taking the step
Acts(p) == <<pc[p], retry_cnt[p], get_lock[p], yields[p]>>' # <<pc[p], retry_cnt[p], get_lock[p], yields[p]>>

\* ---------------------------------------------------------------------- C1
\* C1: when no caller requests a lease, at most one caller is inside a scope
\* that yielded True; while a is inside one, any other caller b whose with-body
\* runs is a central_lock caller that was handed False, and a central_lock_block
\* caller b that is still in its call has not yielded.
C1_MutualExclusionNoLease ==
    (\A p \in Procs : ~Leased(p)) =>
        \A a, b \in Procs :
            (a # b /\ InTrueScope(a)) =>
                /\ ~InTrueScope(b)
                /\ InBody(b) => (IsLock(b) /\ yields[b] = <<FALSE>>)
                /\ (IsBlock(b) /\ ~Over(b)) => yields[b] = <<>>

C1_Witness ==
    /\ \A p \in Procs : ~Leased(p)
    /\ \E a, b \in Procs :
        /\ a # b
        /\ InTrueScope(a)
        /\ setnxRes[b] = "lost"
        /\ pc[b] \in {"l61", "l87"}

\* ---------------------------------------------------------------------- C2
\* C2: the step that ends a scope which yielded True, by normal completion or
\* by an error of the with-body, leaves the key absent, so that a setnx issued
\* next succeeds.
C2_ReleaseGuarantee ==
    [][\A p \in Procs : (InTrueScope(p) /\ Over(p)') => (db' = 0 /\ setnx(db'))]_vars

C2_Witness ==
    \E p \in Procs :
        /\ Over(p)
        /\ yields[p] = <<TRUE>>
        /\ err[p] = "body"
        /\ db = 0

\* ---------------------------------------------------------------------- C3
LostClaim(p) == IsLock(p) /\ setnxRes[p] = "lost"

\* C3: a central_lock call whose setnx returned False issues no expire and no
\* delete, and none of its steps (the setnx, the normal exit, the exit on an
\* error of the body) changes the key, its ttl or whose claim it is.
C3_ContentionLeavesStore ==
    /\ [](\A p \in Procs : LostClaim(p) => (expireCalls[p] = 0 /\ deleteCalls[p] = 0))
    /\ [][\A p \in Procs : ((LostClaim(p) \/ LostClaim(p)') /\ Acts(p))
                              => UNCHANGED <<db, ttl, claimer>>]_vars

C3_Witness ==
    \E p \in Procs :
        /\ LostClaim(p)
        /\ Over(p)
        /\ err[p] = "body"
        /\ db = 1
        /\ ttl # 0
        /\ claimer \notin {0, p}

\* ---------------------------------------------------------------------- C4
GaveUp(p) == IsLock(p) /\ setnxRes[p] = "won" /\ Got(p, FALSE)

\* C4: a central_lock call that gave its claim up after exhausting retry_cnt
\* never sets get_lock and issues exactly one delete, the cleanup, and none
\* at or after the end of the scope.
C4_NoRedundantDelete ==
    \A p \in Procs :
        GaveUp(p) => (~get_lock[p] /\ deleteCalls[p] = 1 /\ relDeletes[p] = 0)

\* ---------------------------------------------------------------------- C5
Undisturbed(p) == ~faulty /\ \A q \in Procs \ {p} : pc[q] = "idle"
Waiting(p) == IsBlock(p) /\ retry0[p] >= 1 /\ pc[p] \in {"l73", "l76", "l81", "l87"}

\* C5: a central_lock_block call with retry_cnt >= 1 that is waiting for the
\* lock is eventually handed True, provided that from some point on the server
\* rejects no expire and no other caller is in a call.
C5_BlockingEventuallyYields ==
    \A p \in Procs : (<>[]Undisturbed(p)) => [](Waiting(p) => <>(pc[p] = "l84"))

\* ---------------------------------------------------------------------- C6
\* C6: every use of a scope yields at most one value, exactly one by the time
\* it is over, and the with-statement raises no error of its own.
C6_OnlyABoolean ==
    \A p \in Procs :
        /\ Len(yields[p]) <= 1
        /\ Over(p) => Len(yields[p]) = 1
        /\ err[p] # "RuntimeError"

\* ---------------------------------------------------------------------- C7
\* C7: a scope that yielded True has issued no delete while its body runs and
\* exactly one once the call is over, whichever way the body ended, and the
\* only error its with-statement raises is the body's.
C7_ExactlyOnceRelease ==
    \A p \in Procs :
        Got(p, TRUE) =>
            /\ InBody(p) \/ Over(p)
            /\ relDeletes[p] = (IF Over(p) THEN 1 ELSE 0)
            /\ err[p] \in {"none", "body"}
            /\ err[p] = "body" => Over(p)

C7_Witness ==
    \E p, q \in Procs :
        /\ Over(p) /\ Got(p, TRUE) /\ err[p] = "body" /\ relDeletes[p] = 1 /\ IsLock(p)
        /\ Over(q) /\ Got(q, TRUE) /\ err[q] = "none" /\ relDeletes[q] = 1 /\ IsBlock(q)

\* ---------------------------------------------------------------------- C8
NeverArmed(p) == IsLock(p) /\ Leased(p) /\ setnxRes[p] = "won" /\ ~armed[p]

\* C8: a central_lock call with a lease whose setnx succeeded and none of
\* whose expire calls returned True yields False, and while that scope is
\* open the key does not carry the claim of this call.
C8_NoOrphanedClaim ==
    /\ [](\A p \in Procs : (NeverArmed(p) /\ yields[p] # <<>>) =>
                (Got(p, FALSE) /\ claimer # p))
    /\ [][\A p \in Procs : (yields[p] = <<>> /\ yields'[p] # <<>> /\ NeverArmed(p)')
                              => db' = 0]_vars

C8_Witness ==
    \E p \in Procs :
        /\ NeverArmed(p)
        /\ retry0[p] = 0
        /\ pc[p] = "l57"
        /\ db = 0

\* ---------------------------------------------------------------------- C9
Arming(p) == IsLock(p) /\ Leased(p) /\ setnxRes[p] = "won" /\ retry0[p] >= 1
Failures(p) == retry0[p] - retry_cnt[p]

\* C9: in a central_lock call with a lease and retry_cnt = n >= 1 whose
\* setnx succeeded: if an expire returned True after k failures then k < n,
\* k + 1 expire calls were made and True was yielded, the key being present
\* with the ttl armed when it was; if none did, n calls were made and False
\* was yielded.
C9_ArmingWithinBudget ==
    /\ [](\A p \in Procs : (Arming(p) /\ yields[p] # <<>>) =>
            IF armed[p]
            THEN /\ Failures(p) < retry0[p]
                 /\ expireCalls[p] = Failures(p) + 1
                 /\ yields[p] = <<TRUE>>
            ELSE /\ expireCalls[p] = retry0[p]
                 /\ Got(p, FALSE))
    /\ [][\A p \in Procs : (Arming(p) /\ ~armed[p] /\ armed'[p])
                              => (db' = 1 /\ ttl' = timeout[p] /\ pc'[p] = "l59")]_vars

C9_Witness ==
    \E p \in Procs :
        /\ Arming(p)
        /\ armed[p]
        /\ retry0[p] >= 2
        /\ expireCalls[p] = retry0[p]
        /\ pc[p] = "l59"
        /\ db = 1
        /\ ttl = timeout[p]

\* --------------------------------------------------------------------- C10
Calls(p) == setnxCalls[p] + expireCalls[p] + deleteCalls[p]
BeforeYield(p) == IsLock(p) /\ pc[p] \in {"l48", "l51", "l56"}

\* C10: up to and during its scope a central_lock call has issued at most one
\* setnx, at most retry_cnt expire calls (none without a lease) and at most
\* one delete; it never sleeps or returns to the setnx; and every step it
\* takes before the yield is one more of these calls.
C10_BoundedAcquisition ==
    /\ [](\A p \in Procs : IsLock(p) =>
            /\ pc[p] \in {"idle", "l48", "l51", "l56", "l57", "l59", "l61", "l59x", "done"}
            /\ (BeforeYield(p) \/ (InBody(p) /\ Len(yields[p]) = 1)) =>
                /\ setnxCalls[p] <= 1
                /\ expireCalls[p] <= (IF Leased(p) THEN retry0[p] ELSE 0)
                /\ deleteCalls[p] <= 1
                /\ InBody(p) => setnxCalls[p] = 1)
    /\ [][\A p \in Procs : (BeforeYield(p) /\ Acts(p)) => Calls(p)' = Calls(p) + 1]_vars

C10_Witness ==
    \E p \in Procs :
        /\ IsLock(p)
        /\ pc[p] = "l57"
        /\ retry0[p] = MaxRetry
        /\ setnxCalls[p] = 1
        /\ expireCalls[p] = MaxRetry
        /\ deleteCalls[p] = 1

\* --------------------------------------------------------------------- C11
KeepsWaiting(p) == pc[p] \in {"l73", "l87"}

\* C11: a central_lock_block call that finds the key present keeps waiting: it
\* yields nothing, goes on between the setnx and the sleep and changes neither
\* the key nor its ttl; whatever it yields is True, yielded after a setnx of
\* its own that succeeded, which takes the key to be absent.
C11_BlockingWaitsForRelease ==
    /\ [](\A p \in Procs : (IsBlock(p) /\ yields[p] # <<>>) =>
            (yields[p] = <<TRUE>> /\ setnxRes[p] = "won"))
    /\ [][\A p \in Procs : (IsBlock(p) /\ KeepsWaiting(p) /\ Acts(p) /\ db = 1)
                              => /\ KeepsWaiting(p)'
                                 /\ yields'[p] = <<>>
                                 /\ UNCHANGED <<db, ttl, claimer>>]_vars
    /\ [][\A p \in Procs : (IsBlock(p) /\ setnxRes[p] # "won" /\ setnxRes'[p] = "won")
                              => (db = 0 /\ claimer' = p)]_vars

C11_Witness ==
    \E p, q \in Procs :
        /\ IsBlock(p)
        /\ pc[p] = "l87"
        /\ setnxRes[p] = "lost"
        /\ yields[p] = <<>>
        /\ ~Leased(q)
        /\ InTrueScope(q)
        /\ claimer = q
        /\ db = 1

\* --------------------------------------------------------------------- C12
Alone(p) == \A q \in Procs \ {p} : pc[q] = "idle"
Unleased(p) == IsLock(p) /\ ~Leased(p)

\* C12: for a central_lock caller without a lease, the others being idle: the
\* setnx finds the key absent and True is yielded; the end of that scope
\* leaves the key absent and without ttl, as before the call; and once the
\* caller has returned its next call starts from the same state, so every
\* cycle yields True.
C12_AcquireReleaseRoundTrip ==
    /\ [](\A p \in Procs : (Unleased(p) /\ Alone(p) /\ pc[p] \in {"idle", "l48", "done"})
            => (db = 0 /\ ttl = 0 /\ claimer = 0))
    /\ [][\A p \in Procs : (Unleased(p) /\ Alone(p) /\ pc[p] = "l48" /\ Acts(p))
                              => (yields'[p] = <<TRUE>> /\ pc'[p] = "l59" /\ db' = 1)]_vars
    /\ [][\A p \in Procs : (Unleased(p) /\ Alone(p) /\ pc[p] = "l59" /\ Acts(p))
                              => (Over(p)' /\ db' = 0 /\ ttl' = 0 /\ claimer' = 0)]_vars
    /\ [][\A p \in Procs : (Unleased(p) /\ Over(p) /\ Acts(p))
                              => /\ pc'[p] = "idle"
                                 /\ <<retry_cnt[p], get_lock[p], yields[p], err[p]>>'
                                        = <<retry0[p], FALSE, <<>>, "none">>]_vars

C12_Witness ==
    \E p \in Procs :
        /\ Unleased(p)
        /\ Alone(p)
        /\ Over(p)
        /\ yields[p] = <<TRUE>>
        /\ relDeletes[p] = 1
        /\ db = 0

\* --------------------------------------------------------------------- C13
\* C13: in central_lock_block with a lease every successful claim starts its
\* arming with the retry_cnt the caller passed, so with retry_cnt >= 1 it is
\* followed by an expire call, also after an earlier exhaustion and cleanup.
C13_PerClaimBudget ==
    [][\A p \in Procs : (IsBlock(p) /\ Leased(p) /\ pc[p] = "l73" /\ claimer' = p)
                          => /\ retry_cnt'[p] = retry0[p]
                             /\ retry0[p] >= 1 => pc'[p] = "l76"]_vars

\* --------------------------------------------------------------------- C14
\* C14: when every caller uses central_lock with a lease and no lease runs
\* out under its holder, at most one caller is inside a scope that yielded
\* True, whatever expire calls fail.
C14_ExclusionSurvivesArmingFailures ==
    (\A p \in Procs : IsLock(p) /\ Leased(p)) =>
        \A a, b \in Procs : (InTrueScope(a) /\ InTrueScope(b)) => a = b

\* --------------------------------------------------------------------- C15
\* C15: a call with a lease that was handed True has had an expire return
\* True, in the step that yielded and after a setnx of its own succeeded; a
\* call without a lease never stands at an expire or a cleanup, issues no
\* expire, and is handed True exactly when its setnx has succeeded.
C15_ArmedBeforeSuccess ==
    /\ [](\A p \in Procs :
            /\ (Leased(p) /\ Got(p, TRUE)) => (armed[p] /\ setnxRes[p] = "won")
            /\ ~Leased(p) =>
                /\ ~armed[p]
                /\ pc[p] \notin {"l51", "l56", "l76", "l81"}
                /\ IsLock(p) => expireCalls[p] = 0
                /\ Got(p, TRUE) <=> setnxRes[p] = "won")
    /\ [][\A p \in Procs : (~armed[p] /\ armed'[p])
                              => /\ Leased(p)
                                 /\ setnxRes[p] = "won"
                                 /\ yields[p] = <<>>
                                 /\ yields'[p] = <<TRUE>>]_vars

C15_Witness ==
    \E p, q \in Procs :
        /\ Leased(p)
        /\ InTrueScope(p)
        /\ armed[p]
        /\ retry_cnt[p] < retry0[p]
        /\ ~Leased(q)
        /\ Over(q)
        /\ yields[q] = <<TRUE>>

\* --------------------------------------------------------------------- C16
\* C16: the end of a scope that yielded True deletes the key also when the
\* claim at the key is another caller's (the holder's own having run out);
\* the witness is the state this leads to, two callers inside scopes that
\* yielded True, one of them without a lease and its claim deleted.
C16_NoOwnershipCheck ==
    [][\A p \in Procs : (InTrueScope(p) /\ Acts(p) /\ db = 1 /\ claimer # p)
                          => (Over(p)' /\ db' = 0 /\ claimer' = 0)]_vars

C16_Witness ==
    /\ \A p \in Procs : IsBlock(p)
    /\ \E b, c \in Procs :
        /\ b # c
        /\ ~Leased(b)
        /\ InTrueScope(b)
        /\ InTrueScope(c)
        /\ db = 1
        /\ claimer = c

\* --------------------------------------------------------------------- C17
\* the central_lock_block caller that is passed over
Starved == NumProcs

\* a step of central_lock_block inside caller p's call (the part of Step(p)
\* a central_lock_block caller can take)
BlockStep(p) ==
    \/ central_lock_block_setnx(p)
    \/ central_lock_block_sleep(p)
    \/ central_lock_block_expire(p)
    \/ central_lock_block_cleanup(p)
    \/ central_lock_block_raise(p)
    \/ central_lock_block_exit(p)

\* the passed-over caller's polls all land while the key is held
StarvedStep ==
    \/ central_lock_block_sleep(Starved)
    \/ db = 1 /\ central_lock_block_setnx(Starved)

\* Every caller uses central_lock_block (lines 68-92) on the one key.
StarveInit == Init /\ \A p \in Procs : IsBlock(p)

NextStarve ==
    \/ \E p \in Procs : central_lock_block_enter(p)
    \/ \E p \in Procs \ {Starved} : BlockStep(p)
    \/ StarvedStep
    \/ \E p \in Procs : Return(p)
    \/ LeaseExpire
    \/ Heal

\* One way the callers' steps can interleave: every caller keeps entering
\* `with central_lock_block(...)`, the others' calls run on, and the polls of
\* line 73 of caller Starved, one every `interval` (line 87), fall where the
\* key is held.
StarveSpec ==
    /\ StarveInit
    /\ [][NextStarve]_vars
    /\ \A p \in Procs : WF_vars(central_lock_block_enter(p))
    /\ \A p \in Procs \ {Starved} : WF_vars(BlockStep(p)) /\ WF_vars(Return(p))
    /\ SF_vars(StarvedStep)

\* C17: the behaviours of StarveSpec are behaviours of the program that are
\* weakly fair to every caller's steps, in them the central_lock_block caller
\* Starved enters, polls for ever and never yields, and, unless one of them
\* runs out of its arming budget, the other callers are inside scopes that
\* yielded True infinitely often.
C17_StarvationUnderWeakFairness ==
    /\ [][Next]_vars
    /\ \A p \in Procs : WF_vars(Step(p))
    /\ [](yields[Starved] = <<>>)
    /\ []<>(pc[Starved] = "l87" /\ setnxRes[Starved] = "lost")
    /\ (\A p \in Procs \ {Starved} : [](pc[p] # "l81"))
        => []<>(\E p \in Procs \ {Starved} : InTrueScope(p))

C17_Witness ==
    /\ \A p \in Procs : IsBlock(p)
    /\ pc[Starved] = "l87"
    /\ setnxRes[Starved] = "lost"
    /\ yields[Starved] = <<>>
    /\ \E p \in Procs \ {Starved} : InTrueScope(p) /\ claimer = p /\ Got(p, TRUE)

\* --------------------------------------------------------------------- C18
\* caller p is between a successful setnx and the end of its with-statement
Busy(p) == setnxRes[p] = "won" /\ pc[p] \notin {"idle", "l59x", "done"}

\* C18: in every state in which no caller is between its successful setnx
\* and the end of its call the key is absent.
C18_NoLeakAtQuiescence ==
    (\A p \in Procs : ~Busy(p)) => db = 0

C18_Witness ==
    /\ \A p \in Procs : ~Busy(p)
    /\ \E p, q \in Procs :
        /\ Over(p) /\ GaveUp(p) /\ deleteCalls[p] = 2
        /\ Over(q) /\ Got(q, TRUE) /\ err[q] = "body"

\* --------------------------------------------------------------------- C19
\* C19: when every caller uses central_lock_block and no lease runs out under
\* its holder, a caller that stands at an expire, at the cleanup delete or in
\* its scope (whose end deletes) finds its own claim at the key, so every
\* delete removes the deleting call's own claim and at most one caller is
\* inside a scope.
C19_BlockingDeletesOwnClaims ==
    (\A p \in Procs : IsBlock(p)) =>
        \A p \in Procs : pc[p] \in {"l76", "l81", "l84"} => (db = 1 /\ claimer = p)

C19_Witness ==
    /\ \A p \in Procs : IsBlock(p)
    /\ \E p, q \in Procs :
        /\ Leased(p) /\ pc[p] = "l84" /\ claimer = p /\ retry_cnt[p] < retry0[p]
        /\ Leased(q) /\ pc[q] = "l87" /\ retry0[q] >= 1 /\ retry_cnt[q] = 0

====
